---- MODULE Spec2Model ----
(***************************************************************************)
(* Model of backend/app/websocket.py: the WebSocket handler that stores    *)
(* message parts per connection, reassembles them at END and relays the    *)
(* generation backend's events to the connection.                          *)
(***************************************************************************)
EXTENDS Integers, Sequences, FiniteSets, TLC

(* ------------------------------ bounds -------------------------------- *)
\* part frames carry an index in -1..MaxIndex
MaxIndex == 1
\* non-terminal generation events per run
MaxEvents == 2
\* END invocations in one behaviour
MaxRuns == 1
\* clock ticks the clock-driven specification lets pass
MaxTicks == 1

(* ------------------------- program constants -------------------------- *)
\* websocket.py:347  expire = int(now.timestamp()) + 60 * 2
TTL == 60 * 2
\* seconds that pass in one clock tick of the model
TickSeconds == 60

(* ------------------------------ inputs -------------------------------- *)
Conns == {"c1", "c2"}
Users == {"u1", "u2"}
\* a credential names a subject; only a well-signed one verifies
Tokens == [sub : Users, signed : BOOLEAN]
Indices == (0 - 1)..MaxIndex
\* message fragments: strings, as sequences of characters
Fragments == {<<"{">>, <<"{", "b">>, <<"c", "}">>, <<"}">>}

\* an optional attribute or value: <<>> when absent, <<v>> when present
Absent == <<>>
Some(v) == <<v>>

(* ----------------------------- Part Store ------------------------------ *)
\* websocket.py:373-381, 435-442: the items the handler writes
OwnerItem(c, u, e) ==
    [ConnectionId |-> c, MessagePartId |-> 0, UserId |-> Some(u),
     MessagePart |-> Absent, expire |-> e]

PartItem(c, seq, part, e) ==
    [ConnectionId |-> c, MessagePartId |-> seq, UserId |-> Absent,
     MessagePart |-> Some(part), expire |-> e]

\* a put that forgets the connection when it looks for the item to replace
put_item_anyconn(tbl, item) ==
    {it \in tbl : it.MessagePartId # item.MessagePartId} \cup {item}

\* a put that appends instead of replacing the item with the same key
put_item_append(tbl, item) == tbl \cup {item}

\* table.put_item: upsert keyed by (ConnectionId, MessagePartId)
put_item(tbl, item) ==
    {it \in tbl : ~(it.ConnectionId = item.ConnectionId
                    /\ it.MessagePartId = item.MessagePartId)} \cup {item}

\* a query that forgets the key condition on the connection
query_owner_anyconn(tbl, c) == {it \in tbl : it.UserId # Absent}

\* websocket.py:385-388: Key(ConnectionId).eq(c), Attr(UserId).exists()
query_owner(tbl, c) ==
    {it \in tbl : it.ConnectionId = c /\ it.UserId # Absent}

\* websocket.py:404-407: Key(ConnectionId).eq(c) & Key(MessagePartId).gte(1)
query_parts(tbl, c) ==
    {it \in tbl : it.ConnectionId = c /\ it.MessagePartId >= 1}

\* all the orders in which the pages of a query can hand over a set of items
Orders(S) ==
    {s \in [1..Cardinality(S) -> S] : \A i, j \in 1..Cardinality(S) :
                                          i # j => s[i] # s[j]}

\* keeps the order of arrival
sort_parts_none(items) == items

\* websocket.py:417  message_parts.sort(key=lambda x: x["MessagePartId"])
sort_parts(items) ==
    SortSeq(items, LAMBDA a, b : a.MessagePartId < b.MessagePartId)

RECURSIVE join_parts(_)
\* websocket.py:418  "".join(item["MessagePart"] for item in message_parts)
join_parts(items) ==
    IF items = <<>> THEN <<>>
    ELSE Head(items).MessagePart[1] \o join_parts(Tail(items))

(* --------------------------- collaborators ---------------------------- *)
\* app.auth.verify_token: the decoded claims, or Absent when it raises
verify_token(token) ==
    IF token.signed THEN Some([sub |-> token.sub]) ELSE Absent

\* json.loads and ChatInput(**...): a payload is "{", then any number of the
\* flags "b" (a bot id is given) and "c" (continue_generate), then "}";
\* Absent when the text does not parse
parse_chat_input(text) ==
    IF /\ Len(text) >= 2
       /\ text[1] = "{"
       /\ text[Len(text)] = "}"
       /\ \A i \in 2..(Len(text) - 1) : text[i] \in {"b", "c"}
    THEN Some([bot_id |-> IF \E i \in 2..(Len(text) - 1) : text[i] = "b"
                         THEN Some("bot") ELSE Absent,
               continue_generate |-> \E i \in 2..(Len(text) - 1) : text[i] = "c"])
    ELSE Absent

(* ---------------------------- conversations --------------------------- *)
\* MessageModel: the fields the handler reads or writes; content is the list
\* of the bodies of its content blocks, here one block
Message(role, body, parent, used_chunks, thinking_log) ==
    [role |-> role, content |-> <<body>>, parent |-> parent, children |-> <<>>,
     used_chunks |-> used_chunks, thinking_log |-> thinking_log]

\* conversation.message_map[id] = message
SetMessage(map, id, message) ==
    [i \in DOMAIN map \cup {id} |-> IF i = id THEN message ELSE map[i]]

\* conversation.message_map[parent].children.append(id)
AddChild(map, parent, id) ==
    [map EXCEPT ![parent].children = Append(@, id)]

\* a stored conversation whose last assistant message was cut at max_tokens:
\* message 0 is the root, 1 the user's message, 2 the assistant's answer
StoredConversation ==
    [message_map |->
        (0 :> [Message("system", <<>>, Absent, Absent, Absent)
                 EXCEPT !.children = <<1>>]) @@
        (1 :> [Message("user", <<>>, Some(0), Absent, Absent)
                 EXCEPT !.children = <<2>>]) @@
        (2 :> Message("assistant", <<0>>, Some(1), Absent, Absent)),
     last_message_id |-> 2,
     total_price |-> 0,
     should_continue |-> TRUE]

RECURSIVE trace_to_root(_, _)
\* app.usecases.chat.trace_to_root: the ids from the root down to node
trace_to_root(node, map) ==
    IF node = Absent \/ node[1] \notin DOMAIN map THEN <<>>
    ELSE Append(trace_to_root(map[node[1]].parent, map), node[1])

\* app.usecases.chat.prepare_conversation: Absent when it raises
\* RecordNotFoundError; else the user's message id, the conversation with
\* the user's message appended (not when continuing) and the bot
prepare_conversation(conv, chat_input, bot, recordOk, newId) ==
    IF ~recordOk \/ (chat_input.bot_id # Absent /\ ~bot.exists) THEN Absent
    ELSE Some([
        user_msg_id |-> IF chat_input.continue_generate
                        THEN conv.last_message_id ELSE newId,
        conversation |->
            IF chat_input.continue_generate THEN conv
            ELSE [conv EXCEPT !.message_map =
                    AddChild(SetMessage(@, newId,
                                 Message("user", <<>>,
                                         Some(conv.last_message_id),
                                         Absent, Absent)),
                             conv.last_message_id, newId)],
        bot |-> IF chat_input.bot_id # Absent THEN Some(bot) ELSE Absent])

(* ------------------------ effects of an invocation --------------------- *)
\* one call of gatewayapi.post_to_connection; ok = FALSE when it raises
Send(status, reason, n, ok) ==
    [op |-> "send", status |-> status, reason |-> reason, n |-> n, ok |-> ok]

\* one call of store_conversation; ok = FALSE when it raises
Store(ok) ==
    [op |-> "store", status |-> "", reason |-> "", n |-> 0, ok |-> ok]

\* the outcome of an invocation: the response it returns, or escaped = TRUE
\* when an exception leaves the handler; the calls it made, in order; and
\* the exception that was raised in it, if any
Outcome(code, esc, log, error) ==
    [statusCode |-> code, escaped |-> esc, log |-> log, error |-> error]

Returned(code, log) == Outcome(code, FALSE, log, "")

\* an except clause that returns 500 without telling the connection
Except_silent(log, reason, errOk) == Outcome(500, FALSE, log, reason)

\* websocket.py:445-452: the handler's top-level except clause; when its
\* own post_to_connection raises, that exception leaves the handler
Except(log, reason, errOk) ==
    IF errOk
    THEN Outcome(500, FALSE, Append(log, Send("ERROR", reason, 0, TRUE)),
                 reason)
    ELSE Outcome(0, TRUE, Append(log, Send("ERROR", reason, 0, FALSE)),
                 reason)

VARIABLES
    table,      \* the DynamoDB session table: a set of items
    now,        \* the clock, in seconds
    last,       \* the most recent START or part invocation and its outcome
    runs,       \* the END invocations in progress and those that ended
                \* since the last END arrived, in the order they arrived
    ended,      \* the number of END invocations so far
    sent,       \* per connection: the last fragment sent for each index
    verified,   \* per connection: the subject of the last verified START
    store,      \* the conversation store: one conversation per user
    botdb,      \* the bot the request's bot id refers to, if it exists
    ulid        \* the number of identifiers generated so far

vars == <<table, now, last, runs, ended, sent, verified, store, botdb, ulid>>

\* index and replaced describe a part frame that was stored: the index it
\* carried and the fragment, if any, that had been sent for that index
NoLast == [conn |-> "", step |-> "", statusCode |-> 0, escaped |-> FALSE,
           log |-> <<>>, error |-> "", index |-> 0, replaced |-> Absent]

Invocation(c, step, out) ==
    [conn |-> c, step |-> step, statusCode |-> out.statusCode,
     escaped |-> out.escaped, log |-> out.log, error |-> out.error,
     index |-> 0, replaced |-> Absent]

\* a START that stores the subject the credential names without verifying it
start_unverified(c, token, fault, errOk) ==
    /\ table' = put_item(table, OwnerItem(c, token.sub, now + TTL))
    /\ verified' = verified
    /\ last' = Invocation(c, "START",
                          IF token.signed THEN Returned(200, <<>>)
                          ELSE Outcome(403, FALSE, <<>>, "InvalidToken"))

\* websocket.py:362-382: handler, step == "START"
start(c, token, fault, errOk) ==
    LET decoded == verify_token(token) IN
    IF fault = "KeyError"
    THEN \* body["token"] raises KeyError
         /\ last' = Invocation(c, "START", Except(<<>>, "KeyError", errOk))
         /\ UNCHANGED <<table, verified>>
    ELSE IF decoded = Absent
    THEN \* websocket.py:367-369: except Exception around verify_token
         /\ last' = Invocation(c, "START",
                               Outcome(403, FALSE, <<>>, "InvalidToken"))
         /\ UNCHANGED <<table, verified>>
    ELSE IF fault = "ClientError"
    THEN \* table.put_item raises
         /\ last' = Invocation(c, "START", Except(<<>>, "ClientError", errOk))
         /\ UNCHANGED <<table, verified>>
    ELSE /\ table' = put_item(table, OwnerItem(c, decoded[1].sub, now + TTL))
         /\ verified' = [verified EXCEPT ![c] = Some(decoded[1].sub)]
         /\ last' = Invocation(c, "START", Returned(200, <<>>))

HandlerStart(c, token, fault, errOk) ==
    /\ start(c, token, fault, errOk)
    /\ UNCHANGED <<now, runs, ended, sent, store, botdb, ulid>>

\* a part frame stored under its index, not under index + 1
part_index_same(index) == index

\* websocket.py:431  part_index = body["index"] + 1
part_index(index) == index + 1

\* websocket.py:428-443: handler, a frame with no step
HandlerPart(c, index, part, fault, errOk) ==
    /\ IF fault = "KeyError"
       THEN \* body["index"] raises KeyError
            /\ last' = Invocation(c, "PART", Except(<<>>, "KeyError", errOk))
            /\ UNCHANGED <<table, sent>>
       ELSE IF fault = "ClientError"
       THEN \* table.put_item raises
            /\ last' = Invocation(c, "PART", Except(<<>>, "ClientError", errOk))
            /\ UNCHANGED <<table, sent>>
       ELSE /\ table' = put_item(table,
                            PartItem(c, part_index(index), part, now + TTL))
            /\ sent' = [sent EXCEPT ![c][index] = Some(part)]
            /\ last' = [Invocation(c, "PART", Returned(200, <<>>)) EXCEPT
                          !.index = index, !.replaced = sent[c][index]]
    /\ UNCHANGED <<now, runs, ended, verified, store, botdb, ulid>>

(* ------------------------------ callbacks ------------------------------ *)
\* what a callback did: the calls it made, the conversation it leaves, the
\* conversation it persisted (if any) and whether it raised
Did(log, conv, persisted, raised) ==
    [log |-> log, conversation |-> conv, persisted |-> persisted,
     raised |-> raised]

\* a token that is kept for a later frame instead of being sent at once
on_stream_batched(n, sendOk) == <<>>

\* websocket.py:42-47
on_stream(n, sendOk) == <<Send("STREAMING", "", n, sendOk)>>

\* websocket.py:117-133
on_agent_thinking(n, sendOk) == <<Send("AGENT_THINKING", "", n, sendOk)>>

\* websocket.py:136-147
on_agent_tool_result(n, sendOk) == <<Send("AGENT_TOOL_RESULT", "", n, sendOk)>>

\* the terminal frame sent before the conversation is stored
send_then_store(conv, stop_reason, storeOk, sendOk) ==
    IF ~sendOk
    THEN Did(<<Send("STREAMING_END", stop_reason, 0, FALSE)>>, conv, Absent,
             TRUE)
    ELSE Did(<<Send("STREAMING_END", stop_reason, 0, TRUE), Store(storeOk)>>,
             conv, IF storeOk THEN Some(conv) ELSE Absent, ~storeOk)

\* websocket.py:106-114, 182-191: store the conversation, then send the
\* terminal frame; a call that raises ends the callback
store_then_send(conv, stop_reason, storeOk, sendOk) ==
    IF ~storeOk THEN Did(<<Store(FALSE)>>, conv, Absent, TRUE)
    ELSE Did(<<Store(TRUE), Send("STREAMING_END", stop_reason, 0, sendOk)>>,
             conv, Some(conv), ~sendOk)

\* an on_stop that adds a message also when the request is a continuation
on_stop_always_new(conv, chat_input, user_msg_id, bot, search_results, arg, newId, storeOk, sendOk) ==
    LET map1 == AddChild(SetMessage(conv.message_map, newId,
                             Message("assistant", arg.full_token,
                                     Some(user_msg_id), Absent, Absent)),
                         user_msg_id, newId)
        conv1 == [conv EXCEPT
                    !.message_map = map1,
                    !.last_message_id = newId,
                    !.total_price = @ + arg.price,
                    !.should_continue = (arg.stop_reason = "max_tokens")]
    IN store_then_send(conv1, arg.stop_reason, storeOk, sendOk)

\* websocket.py:50-114
on_stop(conv, chat_input, user_msg_id, bot, search_results, arg, newId, storeOk, sendOk) ==
    LET used_chunks ==
            IF bot # Absent /\ bot[1].display /\ search_results > 0
            THEN Some(search_results) ELSE Absent
        map1 ==
            IF chat_input.continue_generate
            THEN [conv.message_map EXCEPT
                    ![conv.last_message_id].content[1] =
                        @ \o arg.full_token]
            ELSE AddChild(SetMessage(conv.message_map, newId,
                              Message("assistant", arg.full_token,
                                      Some(user_msg_id), used_chunks, Absent)),
                          user_msg_id, newId)
        conv1 == [conv EXCEPT
                    !.message_map = map1,
                    !.last_message_id =
                        IF chat_input.continue_generate THEN @ ELSE newId,
                    !.total_price = @ + arg.price,
                    !.should_continue = (arg.stop_reason = "max_tokens")]
    IN store_then_send(conv1, arg.stop_reason, storeOk, sendOk)

\* an on_agent_stop that leaves the price out of the conversation
on_agent_stop_unpriced(conv, chat_input, user_msg_id, arg, newId, storeOk, sendOk) ==
    LET map1 == AddChild(SetMessage(conv.message_map, newId,
                             Message("assistant", arg.full_token,
                                     Some(user_msg_id), Absent,
                                     Some(arg.thinking_conversation))),
                         user_msg_id, newId)
        conv1 == [conv EXCEPT
                    !.message_map = map1,
                    !.last_message_id = newId]
    IN store_then_send(conv1, arg.stop_reason, storeOk, sendOk)

\* websocket.py:150-191
on_agent_stop(conv, chat_input, user_msg_id, arg, newId, storeOk, sendOk) ==
    LET map1 == AddChild(SetMessage(conv.message_map, newId,
                             Message("assistant", arg.full_token,
                                     Some(user_msg_id), Absent,
                                     Some(arg.thinking_conversation))),
                         user_msg_id, newId)
        conv1 == [conv EXCEPT
                    !.message_map = map1,
                    !.last_message_id = newId,
                    !.total_price = @ + arg.price]
    IN store_then_send(conv1, arg.stop_reason, storeOk, sendOk)

(* ------------------------- process_chat_input -------------------------- *)
\* how far process_chat_input got before the backend is invoked: pc is
\* "returned" (with statusCode), "raised" (with reason), or the flow that
\* was chosen, "agent" or "plain"
Dispatch(pc, code, reason, log, prep, messages, search_results) ==
    [pc |-> pc, statusCode |-> code, reason |-> reason, log |-> log,
     prep |-> prep, messages |-> messages,
     search_results |-> search_results]

\* a flow selection that looks at the knowledge base first
is_agent_flow_knowledge_first(bot) ==
    bot # Absent /\ bot[1].agent /\ ~bot[1].knowledge

\* websocket.py:217  bot and bot.is_agent_enabled()
is_agent_flow(bot) == bot # Absent /\ bot[1].agent

\* websocket.py:194-311: up to the call of the generation backend
process_chat_input(conv, chat_input, botRecord, recordOk, sendOk, searchOk, newId) ==
    LET prep == prepare_conversation(conv, chat_input, botRecord, recordOk,
                                     newId)
    IN
    IF prep = Absent
    THEN IF chat_input.bot_id # Absent
         THEN IF sendOk
              THEN Dispatch("returned", 404, "RecordNotFoundError",
                            <<Send("ERROR", "bot_not_found", 0, TRUE)>>,
                            Absent, <<>>, 0)
              ELSE Dispatch("raised", 0, "GoneException",
                            <<Send("ERROR", "bot_not_found", 0, FALSE)>>,
                            Absent, <<>>, 0)
         ELSE Dispatch("returned", 400, "RecordNotFoundError", <<>>, Absent,
                       <<>>, 0)
    ELSE
    LET p == prep[1]
        ancestry == trace_to_root(
                        p.conversation.message_map[p.user_msg_id].parent,
                        p.conversation.message_map)
    IN
    IF is_agent_flow(p.bot)
    THEN Dispatch("agent", 0, "", <<>>, prep,
                  Append(ancestry, p.user_msg_id), 0)
    ELSE IF p.bot # Absent /\ p.bot[1].knowledge
    THEN IF ~sendOk
         THEN Dispatch("raised", 0, "GoneException",
                       <<Send("FETCHING_KNOWLEDGE", "", 0, FALSE)>>,
                       prep, <<>>, 0)
         ELSE IF ~searchOk
         THEN Dispatch("raised", 0, "SearchError",
                       <<Send("FETCHING_KNOWLEDGE", "", 0, TRUE)>>,
                       prep, <<>>, 0)
         ELSE Dispatch("plain", 0, "",
                       <<Send("FETCHING_KNOWLEDGE", "", 0, TRUE)>>, prep,
                       IF chat_input.continue_generate THEN ancestry
                       ELSE Append(ancestry, p.user_msg_id), 1)
    ELSE Dispatch("plain", 0, "", <<>>, prep,
                  IF chat_input.continue_generate THEN ancestry
                  ELSE Append(ancestry, p.user_msg_id), 0)

\* websocket.py:219-224: the tools the agent runner is given: those the bot
\* declares, and a knowledge tool when the bot has a knowledge base
agent_tools(bot) ==
    <<"declared">> \o (IF bot.knowledge THEN <<"knowledge">> ELSE <<>>)

(* ------------------------------ handler END ---------------------------- *)
\* an END invocation: pc is "plain" or "agent" while the backend runs and
\* "done" once the invocation is over; g_sent and g_user are what the
\* connection's own frames had sent and verified when END arrived, g_conv
\* the user's stored conversation at that time, g_price the price the
\* terminal event reported
Run(c, pc, out, events, user_id, full_message, chat_input, d) ==
    [conn |-> c, pc |-> pc, statusCode |-> out.statusCode,
     escaped |-> out.escaped, log |-> out.log, error |-> out.error,
     events |-> events,
     user_id |-> user_id, full_message |-> full_message,
     chat_input |-> chat_input,
     bot |-> IF d.prep = Absent THEN Absent ELSE d.prep[1].bot,
     conversation |-> IF d.prep = Absent THEN Absent
                      ELSE Some(d.prep[1].conversation),
     user_msg_id |-> IF d.prep = Absent THEN 0 ELSE d.prep[1].user_msg_id,
     messages |-> d.messages, search_results |-> d.search_results,
     tools |-> IF d.pc = "agent" THEN agent_tools(d.prep[1].bot[1]) ELSE <<>>,
     g_sent |-> sent[c], g_user |-> verified[c], g_price |-> 0,
     g_conv |-> IF user_id = Absent THEN Absent
                ELSE Some(store[user_id[1]])]

NoDispatch == Dispatch("raised", 0, "", <<>>, Absent, <<>>, 0)

\* the owner item a query returns first: the one with the least sort key
FirstItem(items) ==
    CHOOSE it \in items : \A o \in items : it.MessagePartId <= o.MessagePartId

\* websocket.py:383-427: handler, step == "END"; order is the order in
\* which the pages of the parts query hand over the items
HandlerEnd(c, order, recordOk, sendOk, searchOk, errOk) ==
    /\ ended < MaxRuns
    /\ ended' = ended + 1
    /\ order \in Orders(query_parts(table, c))
    /\ LET owners == query_owner(table, c)
           running == SelectSeq(runs, LAMBDA r : r.pc # "done")
           full_message == join_parts(sort_parts(order))
           chat_input == parse_chat_input(full_message)
       IN
       IF owners = {}
       THEN \* response["Items"][0] raises IndexError
            /\ runs' = Append(running,
                   Run(c, "done", Except(<<>>, "IndexError", errOk), <<>>,
                       Absent, Absent, Absent, NoDispatch))
            /\ ulid' = ulid
       ELSE IF chat_input = Absent
       THEN \* json.loads or ChatInput raises
            /\ runs' = Append(running,
                   Run(c, "done", Except(<<>>, "ValueError", errOk), <<>>,
                       FirstItem(owners).UserId, Some(full_message), Absent,
                       NoDispatch))
            /\ ulid' = ulid
       ELSE LET user_id == FirstItem(owners).UserId
                d == process_chat_input(store[user_id[1]], chat_input[1],
                                        botdb, recordOk, sendOk, searchOk,
                                        ulid + 1)
                out == IF d.pc = "returned"
                       THEN Outcome(d.statusCode, FALSE, d.log, d.reason)
                       ELSE IF d.pc = "raised"
                       THEN Except(d.log, d.reason, errOk)
                       ELSE Returned(0, d.log)
            IN /\ runs' = Append(running,
                      Run(c, IF d.pc \in {"plain", "agent"} THEN d.pc
                             ELSE "done",
                          out, <<>>, user_id, Some(full_message), chat_input,
                          d))
               /\ ulid' = ulid + 1
    /\ UNCHANGED <<table, now, last, sent, verified, store, botdb>>

(* --------------------------- generation runs --------------------------- *)
StopReasons == {"end_turn", "max_tokens"}
\* the prices a terminal event can report
Prices == {1, 2}

\* the run with the outcome out and one more backend event
Finish(r, event, out) ==
    [r EXCEPT !.pc = "done", !.statusCode = out.statusCode,
              !.escaped = out.escaped, !.log = out.log,
              !.error = out.error,
              !.events = IF event = "" THEN @ ELSE Append(@, event)]

\* the number of token events the backend has emitted in run r
Tokens_emitted(r) == Len(SelectSeq(r.events, LAMBDA e : e = "token"))

\* the text of token events 1..n, concatenated
RECURSIVE FullToken(_)
FullToken(n) == IF n = 0 THEN <<>> ELSE Append(FullToken(n - 1), n)

\* an except clause around the stream handler that lets the error through
\* to the handler's top-level except clause
stream_except_rethrow(log, reason, errOk) == Except(log, reason, errOk)

\* websocket.py:316-321: except Exception around stream_handler.run
stream_except(log, reason, errOk) == Outcome(500, FALSE, log, reason)

\* the plain backend emits a token event: websocket.py:299, 312-321
StreamToken(i, sendOk, errOk) ==
    /\ i \in 1..Len(runs)
    /\ runs[i].pc = "plain"
    /\ Len(runs[i].events) < MaxEvents
    /\ LET r == runs[i]
           log == r.log \o on_stream(Tokens_emitted(r) + 1, sendOk)
       IN runs' = [runs EXCEPT ![i] =
               IF sendOk THEN [r EXCEPT !.log = log,
                                        !.events = Append(@, "token")]
               ELSE Finish(r, "token",
                           stream_except(log, "GoneException", errOk))]
    /\ UNCHANGED <<table, now, last, ended, sent, verified, store, botdb, ulid>>

\* the plain backend emits its stop event: websocket.py:300-328
StreamStop(i, price, stop_reason, storeOk, sendOk, touchOk, errOk) ==
    /\ i \in 1..Len(runs)
    /\ runs[i].pc = "plain"
    /\ LET r == runs[i]
           arg == [full_token |-> FullToken(Tokens_emitted(r)),
                   price |-> price, stop_reason |-> stop_reason]
           d == on_stop(r.conversation[1], r.chat_input[1], r.user_msg_id,
                        r.bot, r.search_results, arg, ulid + 1, storeOk,
                        sendOk)
           log == r.log \o d.log
           out == IF d.raised
                  THEN stream_except(log, "CallbackError", errOk)
                  ELSE IF r.chat_input[1].bot_id # Absent /\ ~touchOk
                  THEN \* modify_bot_last_used_time raises
                       Except(log, "TouchError", errOk)
                  ELSE Returned(200, log)
       IN /\ runs' = [runs EXCEPT ![i] =
                  [Finish(r, "stop", out) EXCEPT
                      !.conversation = Some(d.conversation),
                      !.g_price = price]]
          /\ store' = IF d.persisted = Absent THEN store
                      ELSE [store EXCEPT ![r.user_id[1]] = d.persisted[1]]
    /\ ulid' = ulid + 1
    /\ UNCHANGED <<table, now, last, ended, sent, verified, botdb>>

\* the plain backend raises before its stop event: websocket.py:312-321
StreamFail(i, errOk) ==
    /\ i \in 1..Len(runs)
    /\ runs[i].pc = "plain"
    /\ runs' = [runs EXCEPT ![i] =
                  Finish(runs[i], "",
                         stream_except(runs[i].log, "BackendError", errOk))]
    /\ UNCHANGED <<table, now, last, ended, sent, verified, store, botdb, ulid>>

\* the agent runner reports thinking or a tool result: websocket.py:230-233,
\* 250; an exception of the callback leaves runner.run and reaches the
\* handler's except clause
AgentEvent(i, kind, sendOk, errOk) ==
    /\ i \in 1..Len(runs)
    /\ runs[i].pc = "agent"
    /\ Len(runs[i].events) < MaxEvents
    /\ LET r == runs[i]
           n == Len(r.events) + 1
           log == r.log \o (IF kind = "agent-thinking"
                            THEN on_agent_thinking(n, sendOk)
                            ELSE on_agent_tool_result(n, sendOk))
       IN runs' = [runs EXCEPT ![i] =
               IF sendOk THEN [r EXCEPT !.log = log,
                                        !.events = Append(@, kind)]
               ELSE Finish(r, kind, Except(log, "GoneException", errOk))]
    /\ UNCHANGED <<table, now, last, ended, sent, verified, store, botdb, ulid>>

\* the agent runner reports its stop: websocket.py:234-252
AgentStop(i, price, stop_reason, storeOk, sendOk, errOk) ==
    /\ i \in 1..Len(runs)
    /\ runs[i].pc = "agent"
    /\ LET r == runs[i]
           arg == [full_token |-> <<Len(r.events) + 1>>,
                   price |-> price, stop_reason |-> stop_reason,
                   thinking_conversation |-> r.events]
           d == on_agent_stop(r.conversation[1], r.chat_input[1],
                              r.user_msg_id, arg, ulid + 1, storeOk, sendOk)
           log == r.log \o d.log
           out == IF d.raised THEN Except(log, "CallbackError", errOk)
                  ELSE Returned(200, log)
       IN /\ runs' = [runs EXCEPT ![i] =
                  [Finish(r, "agent-stop", out) EXCEPT
                      !.conversation = Some(d.conversation),
                      !.g_price = price]]
          /\ store' = IF d.persisted = Absent THEN store
                      ELSE [store EXCEPT ![r.user_id[1]] = d.persisted[1]]
    /\ ulid' = ulid + 1
    /\ UNCHANGED <<table, now, last, ended, sent, verified, botdb>>

\* the agent runner raises before its stop: websocket.py:250, 445-452
AgentFail(i, errOk) ==
    /\ i \in 1..Len(runs)
    /\ runs[i].pc = "agent"
    /\ runs' = [runs EXCEPT ![i] =
                  Finish(runs[i], "",
                         Except(runs[i].log, "BackendError", errOk))]
    /\ UNCHANGED <<table, now, last, ended, sent, verified, store, botdb, ulid>>

(* -------------------------------- clock -------------------------------- *)
\* time passes
Tick ==
    /\ now < MaxTicks * TickSeconds
    /\ now' = now + TickSeconds
    /\ UNCHANGED <<table, last, runs, ended, sent, verified, store, botdb, ulid>>

(* ---------------------------- specifications --------------------------- *)
Bots == [exists : BOOLEAN, agent : BOOLEAN, knowledge : BOOLEAN,
         display : BOOLEAN]

\* the state before any frame: an empty session table, and a conversation
\* store and a bot table as earlier requests left them
Init ==
    /\ table = {}
    /\ now = 0
    /\ last = NoLast
    /\ runs = <<>>
    /\ ended = 0
    /\ sent = [c \in Conns |-> [i \in Indices |-> Absent]]
    /\ verified = [c \in Conns |-> Absent]
    /\ store = [u \in Users |-> StoredConversation]
    /\ botdb \in Bots
    /\ ulid = 2

\* what can go wrong in a START or part frame: nothing, a frame without
\* its field (KeyError), or a put_item that raises (ClientError)
Faults == {"KeyError", "ClientError"}

Frames ==
    \/ \E c \in Conns, token \in Tokens, fault \in Faults \cup {"none"},
          errOk \in BOOLEAN :
          HandlerStart(c, token, fault, errOk)
    \/ \E c \in Conns, index \in Indices, part \in Fragments,
          fault \in Faults \cup {"none"}, errOk \in BOOLEAN :
          HandlerPart(c, index, part, fault, errOk)

Ends ==
    \E c \in Conns, recordOk, sendOk, searchOk, errOk \in BOOLEAN :
       \E order \in Orders(query_parts(table, c)) :
          HandlerEnd(c, order, recordOk, sendOk, searchOk, errOk)

Events ==
    \/ \E i \in 1..MaxRuns, sendOk, errOk \in BOOLEAN :
          StreamToken(i, sendOk, errOk)
    \/ \E i \in 1..MaxRuns, price \in Prices, stop_reason \in StopReasons,
          storeOk, sendOk, touchOk, errOk \in BOOLEAN :
          StreamStop(i, price, stop_reason, storeOk, sendOk, touchOk, errOk)
    \/ \E i \in 1..MaxRuns, errOk \in BOOLEAN : StreamFail(i, errOk)
    \/ \E i \in 1..MaxRuns, sendOk, errOk \in BOOLEAN,
          kind \in {"agent-thinking", "agent-tool-result"} :
          AgentEvent(i, kind, sendOk, errOk)
    \/ \E i \in 1..MaxRuns, price \in Prices, stop_reason \in StopReasons,
          storeOk, sendOk, errOk \in BOOLEAN :
          AgentStop(i, price, stop_reason, storeOk, sendOk, errOk)
    \/ \E i \in 1..MaxRuns, errOk \in BOOLEAN : AgentFail(i, errOk)

Next == Frames \/ Ends \/ Events \/ Tick

Spec == Init /\ [][Next]_vars

(* one connection's session, frame by frame, up to the dispatch of END *)
OneConn == {"c1"}
PlainBot == [exists |-> TRUE, agent |-> FALSE, knowledge |-> FALSE,
             display |-> FALSE]

InitSession == Init /\ botdb = PlainBot

AToken == [sub |-> "u1", signed |-> TRUE]
AFragment == <<"{">>

SessionStart ==
    /\ ended = 0
    /\ \E c \in OneConn :
          \/ \E token \in Tokens : HandlerStart(c, token, "none", TRUE)
          \/ \E fault \in Faults, errOk \in BOOLEAN :
                HandlerStart(c, AToken, fault, errOk)

SessionPart ==
    /\ ended = 0
    /\ \E c \in OneConn :
          \/ \E index \in 0..MaxIndex, part \in Fragments :
                HandlerPart(c, index, part, "none", TRUE)
          \/ HandlerPart(c, 0 - 1, AFragment, "none", TRUE)
          \/ \E fault \in Faults, errOk \in BOOLEAN :
                HandlerPart(c, 0, AFragment, fault, errOk)

SessionEnd ==
    \E c \in OneConn, recordOk, errOk \in BOOLEAN :
       \E order \in Orders(query_parts(table, c)) :
          HandlerEnd(c, order, recordOk, TRUE, TRUE, errOk)

NextSession == SessionStart \/ SessionPart \/ SessionEnd

SpecSession == InitSession /\ [][NextSession]_vars

(* generation runs, from sessions whose parts hold a well-formed request *)
Payloads == {<<(<<"{">>), (<<"}">>)>>,
             <<(<<"{", "b">>), (<<"}">>)>>,
             <<(<<"{">>), (<<"c", "}">>)>>,
             <<(<<"{", "b">>), (<<"c", "}">>)>>}

\* the items and the frames of a session of user u on connection c whose
\* parts are the fragments frags, sent with indices 0..Len(frags)-1
SessionItems(c, u, frags) ==
    {OwnerItem(c, u, TTL)} \cup
    {PartItem(c, part_index(k - 1), frags[k], TTL) : k \in 1..Len(frags)}

SessionSent(frags) ==
    [i \in Indices |-> IF i + 1 \in 1..Len(frags) THEN Some(frags[i + 1])
                       ELSE Absent]

\* bots: a missing one, and every flow with and without a knowledge base
RunBots == {b \in Bots : (b.display => b.knowledge /\ ~b.agent)
                         /\ (~b.exists => ~b.agent /\ ~b.knowledge)}

InitRun ==
    /\ \E frags \in Payloads :
          /\ table = SessionItems("c1", "u1", frags)
          /\ sent = [c \in Conns |-> IF c = "c1" THEN SessionSent(frags)
                                     ELSE [i \in Indices |-> Absent]]
    /\ verified = [c \in Conns |-> IF c = "c1" THEN Some("u1") ELSE Absent]
    /\ now = 0
    /\ last = NoLast
    /\ runs = <<>>
    /\ ended = 0
    /\ store = [u \in Users |-> StoredConversation]
    /\ botdb \in RunBots
    /\ ulid = 2

\* the next END arrives when the run before it is over
RunEnd ==
    /\ \A i \in 1..Len(runs) : runs[i].pc = "done"
    /\ \E c \in OneConn, recordOk, sendOk, searchOk, errOk \in BOOLEAN :
          \E order \in Orders(query_parts(table, c)) :
             HandlerEnd(c, order, recordOk, sendOk, searchOk, errOk)

NextRun == RunEnd \/ Events

SpecRun == InitRun /\ [][NextRun]_vars

(* two connections, their START, part and END frames interleaved *)
IsoFragments == {<<"{">>, <<"}">>}

IsoStart ==
    /\ ended = 0
    /\ \E c \in Conns, token \in Tokens : HandlerStart(c, token, "none", TRUE)

\* each connection sends its own fragment, so that a fragment of the other
\* connection is told apart wherever it turns up
IsoFragmentOf(c) == IF c = "c1" THEN <<"{">> ELSE <<"}">>

IsoPart ==
    /\ ended = 0
    /\ \E c \in Conns, index \in 0..MaxIndex :
          HandlerPart(c, index, IsoFragmentOf(c), "none", TRUE)

IsoEnd ==
    \E c \in Conns :
       \E order \in Orders(query_parts(table, c)) :
          HandlerEnd(c, order, TRUE, TRUE, TRUE, TRUE)

NextIso == IsoStart \/ IsoPart \/ IsoEnd

SpecIso == InitSession /\ [][NextIso]_vars

(* one connection's session while the clock advances *)
ClockStart ==
    /\ ended = 0
    /\ \E c \in OneConn : HandlerStart(c, AToken, "none", TRUE)

ClockPart ==
    /\ ended = 0
    /\ \E c \in OneConn, index \in 0..MaxIndex, part \in IsoFragments :
          HandlerPart(c, index, part, "none", TRUE)

ClockEnd ==
    \E c \in OneConn :
       \E order \in Orders(query_parts(table, c)) :
          HandlerEnd(c, order, TRUE, TRUE, TRUE, TRUE)

NextClock == ClockStart \/ ClockPart \/ ClockEnd \/ Tick

SpecClock == InitSession /\ [][NextClock]_vars

(* one connection's session and an END that comes after the expiry window *)
\* an item whose stored expiry has passed
Expired(it) == it.expire < now

\* more time passes than the items of the table have to live
Lapse ==
    /\ now < MaxTicks * (TTL + TickSeconds)
    /\ now' = now + TTL + TickSeconds
    /\ UNCHANGED <<table, last, runs, ended, sent, verified, store, botdb, ulid>>

\* the table's time-to-live deletes an expired item, at a time of its own
Purge ==
    /\ \E it \in table : Expired(it) /\ table' = table \ {it}
    /\ UNCHANGED <<now, last, runs, ended, sent, verified, store, botdb, ulid>>

NextExpiry == ClockStart \/ ClockPart \/ ClockEnd \/ Lapse \/ Purge

SpecExpiry == InitSession /\ [][NextExpiry]_vars

(* two END invocations of one user whose runs overlap *)
ConcPayload == <<(<<"{">>), (<<"}">>)>>

ConcText == ConcPayload[1] \o ConcPayload[2]

\* both connections hold a session of user u1, and the END of c2 has been
\* dispatched: its run is waiting for the backend's first event
InitConc ==
    /\ table = SessionItems("c1", "u1", ConcPayload) \cup
               SessionItems("c2", "u1", ConcPayload)
    /\ sent = [c \in Conns |-> SessionSent(ConcPayload)]
    /\ verified = [c \in Conns |-> Some("u1")]
    /\ now = 0
    /\ last = NoLast
    /\ ended = 0
    /\ store = [u \in Users |-> StoredConversation]
    /\ botdb = PlainBot
    /\ ulid = 3
    /\ runs = <<Run("c2", "plain", Returned(0, <<>>), <<>>, Some("u1"),
                    Some(ConcText), parse_chat_input(ConcText),
                    process_chat_input(StoredConversation,
                                       parse_chat_input(ConcText)[1],
                                       PlainBot, TRUE, TRUE, TRUE, 3))>>

ConcEnd ==
    \E c \in Conns :
       \E order \in Orders(query_parts(table, c)) :
          HandlerEnd(c, order, TRUE, TRUE, TRUE, TRUE)

ConcEvents ==
    \/ \E i \in 1..Len(runs), sendOk \in BOOLEAN : StreamToken(i, sendOk, TRUE)
    \/ \E i \in 1..Len(runs), price \in Prices, storeOk, sendOk \in BOOLEAN :
          StreamStop(i, price, "end_turn", storeOk, sendOk, TRUE, TRUE)
    \/ \E i \in 1..Len(runs) : StreamFail(i, TRUE)

NextConc == ConcEnd \/ ConcEvents

SpecConc == InitConc /\ [][NextConc]_vars

(* one connection's session whose client may skip a part *)
\* fragments of which one is a whole request
GapFragments == {<<"{">>, <<"{", "}">>, <<"}">>}

GapPart ==
    /\ ended = 0
    /\ \E c \in OneConn, index \in 0..MaxIndex, part \in GapFragments :
          HandlerPart(c, index, part, "none", TRUE)

NextGap == ClockStart \/ GapPart \/ ClockEnd

SpecGap == InitSession /\ [][NextGap]_vars

(* a second session on a connection, one minute after its first session *)
\* an item written at the present time
Fresh(it) == it.expire = now + TTL

\* the table holds what the first session of u1 on c1 wrote at time 0
InitSecond ==
    /\ \E frags \in Payloads :
          /\ table = SessionItems("c1", "u1", frags)
          /\ sent = [c \in Conns |-> IF c = "c1" THEN SessionSent(frags)
                                     ELSE [i \in Indices |-> Absent]]
    /\ verified = [c \in Conns |-> IF c = "c1" THEN Some("u1") ELSE Absent]
    /\ now = TickSeconds
    /\ last = NoLast
    /\ runs = <<>>
    /\ ended = 0
    /\ store = [u \in Users |-> StoredConversation]
    /\ botdb = PlainBot
    /\ ulid = 2

\* the second session's START
SecondStart ==
    /\ \A it \in query_owner(table, "c1") : ~Fresh(it)
    /\ ClockStart

\* its parts follow its START
SecondPart ==
    /\ \E it \in query_owner(table, "c1") : Fresh(it)
    /\ GapPart

SecondEnd ==
    /\ \E it \in query_owner(table, "c1") : Fresh(it)
    /\ ClockEnd

NextSecond == SecondStart \/ SecondPart \/ SecondEnd

SpecSecond == InitSecond /\ [][NextSecond]_vars

(* ------------------------------ properties ----------------------------- *)
\* the fragments sent with indices i, i+1, ... up to the first index that
\* was not sent, concatenated
RECURSIVE ConcatFrom(_, _)
ConcatFrom(g, i) ==
    IF i > MaxIndex \/ g[i] = Absent THEN <<>>
    ELSE g[i][1] \o ConcatFrom(g, i + 1)

\* the indices >= 0 that were sent are exactly 0..n for some n
SentIsRange(g) ==
    \A i \in 0..MaxIndex : g[i] # Absent =>
        \A j \in 0..i : g[j] # Absent

\* C1: when the part frames sent on a connection have the indices 0..n, the
\* string END reassembles is F0 ++ F1 ++ ... ++ Fn, whatever the order in
\* which the frames were stored and in which the pages return the items.
C1_Reassembly ==
    \A k \in 1..Len(runs) :
        (runs[k].full_message # Absent /\ SentIsRange(runs[k].g_sent)) =>
            runs[k].full_message[1] = ConcatFrom(runs[k].g_sent, 0)

\* an END reassembled at least two different fragments
C1_Witness ==
    \E k \in 1..Len(runs) :
        /\ runs[k].full_message # Absent
        /\ SentIsRange(runs[k].g_sent)
        /\ runs[k].g_sent[0] # Absent
        /\ runs[k].g_sent[1] # Absent
        /\ runs[k].g_sent[0] # runs[k].g_sent[1]
        /\ runs[k].full_message[1] = ConcatFrom(runs[k].g_sent, 0)

\* C4: a START whose credential does not verify returns 403, sends nothing
\* and leaves the session table as it was; an item with a UserId exists only
\* for a connection whose START verified, and holds the verified subject.
C4_OwnerVerified ==
    \A it \in table :
        it.UserId # Absent =>
            /\ it.MessagePartId = 0
            /\ verified[it.ConnectionId] = it.UserId

C4_Rejected ==
    (last'.step = "START" /\ last'.error = "InvalidToken" /\ last' # last) =>
        /\ last'.statusCode = 403
        /\ last'.log = <<>>
        /\ table' = table

C4_FailsClosed == []C4_OwnerVerified /\ [][C4_Rejected]_vars

\* a START was rejected on a connection that holds an owner record
C4_Witness ==
    /\ last.step = "START"
    /\ last.statusCode = 403
    /\ \E it \in query_owner(table, last.conn) :
          verified[last.conn] = it.UserId

\* the fragments sent with indices i..MaxIndex, concatenated in the order
\* of their indices
RECURSIVE ConcatAll(_, _)
ConcatAll(g, i) ==
    IF i > MaxIndex THEN <<>>
    ELSE (IF g[i] = Absent THEN <<>> ELSE g[i][1]) \o ConcatAll(g, i + 1)

ItemsOf(tbl, c) == {it \in tbl : it.ConnectionId = c}

\* what the frames of connection c alone put in the table: the owner its
\* last verified START named and the last fragment sent for each index
OwnItems(c) ==
    (IF verified[c] = Absent THEN {}
     ELSE {[ConnectionId |-> c, MessagePartId |-> 0, UserId |-> verified[c],
            MessagePart |-> Absent]}) \cup
    {[ConnectionId |-> c, MessagePartId |-> i + 1, UserId |-> Absent,
      MessagePart |-> sent[c][i]] : i \in {j \in 0..MaxIndex : sent[c][j] # Absent}}

\* an item without its expiry
Content(it) ==
    [ConnectionId |-> it.ConnectionId, MessagePartId |-> it.MessagePartId,
     UserId |-> it.UserId, MessagePart |-> it.MessagePart]

\* C5: the items of a connection are those its own frames wrote, and the
\* owner and the payload an END computes are those of its own frames.
C5_OwnView ==
    /\ \A c \in Conns : {Content(it) : it \in ItemsOf(table, c)} = OwnItems(c)
    /\ \A k \in 1..Len(runs) :
          /\ runs[k].user_id = runs[k].g_user
          /\ runs[k].user_id # Absent =>
                runs[k].full_message = Some(ConcatAll(runs[k].g_sent, 0))

\* a frame of one connection leaves the items of every other connection
\* as they were
C5_OthersUntouched ==
    \A c \in Conns :
        (last' # last /\ last'.conn # c) =>
            ItemsOf(table', c) = ItemsOf(table, c)

C5_Isolation == []C5_OwnView /\ [][C5_OthersUntouched]_vars

\* an END on one connection reassembled its own payload while the other
\* connection holds another owner and other parts with the same indices
C5_Witness ==
    \E k \in 1..Len(runs) : \E c \in Conns :
        /\ c # runs[k].conn
        /\ runs[k].user_id # Absent
        /\ verified[c] # Absent
        /\ verified[c] # runs[k].user_id
        /\ sent[c][0] # Absent
        /\ runs[k].g_sent[0] # Absent
        /\ sent[c][0] # runs[k].g_sent[0]
        /\ runs[k].full_message = Some(ConcatAll(runs[k].g_sent, 0))

\* the item stored under the key (c, seq), if any
ItemsAt(tbl, c, seq) ==
    {it \in tbl : it.ConnectionId = c /\ it.MessagePartId = seq}

\* what a stored part frame with index i and fragment p on connection c
\* does to the table: one item under (c, i+1), holding p; the other items
\* as they were
C6_PartEffect(c, i, p) ==
    /\ ItemsAt(table', c, i + 1) = {PartItem(c, i + 1, p, now + TTL)}
    /\ table' \ ItemsAt(table', c, i + 1) = table \ ItemsAt(table, c, i + 1)

\* C6 as stated: the second of two part frames with the same index leaves
\* one item with its content, and a resend of the same content leaves the
\* table unchanged.
C6_UpsertStated ==
    \A c \in Conns, i \in Indices, p \in Fragments :
        HandlerPart(c, i, p, "none", TRUE) =>
            /\ C6_PartEffect(c, i, p)
            /\ sent[c][i] = Some(p) => table' = table

C6_Original == [][C6_UpsertStated]_vars

\* C6, amended: the second of two part frames with the same index leaves
\* one item with its content; a resend of the same content leaves the keys
\* and the contents of the table unchanged and renews that item's expiry;
\* END reassembles the last fragment of each index exactly once.
C6_UpsertAmended ==
    \A c \in Conns, i \in Indices, p \in Fragments :
        HandlerPart(c, i, p, "none", TRUE) =>
            /\ C6_PartEffect(c, i, p)
            /\ sent[c][i] = Some(p) =>
                  {Content(it) : it \in table'} = {Content(it) : it \in table}

C6_Once ==
    \A k \in 1..Len(runs) :
        runs[k].user_id # Absent =>
            runs[k].full_message = Some(ConcatAll(runs[k].g_sent, 0))

C6_Overwrite == []C6_Once /\ [][C6_UpsertAmended]_vars

\* an END reassembled the parts after a part frame replaced a fragment by
\* another one
C6_Witness ==
    /\ last.step = "PART"
    /\ last.replaced # Absent
    /\ last.replaced # sent[last.conn][last.index]
    /\ \E k \in 1..Len(runs) :
          /\ runs[k].conn = last.conn
          /\ runs[k].full_message = Some(ConcatAll(sent[last.conn], 0))

(* properties of generation runs *)
IsFrame(e, status) == e.op = "send" /\ e.status = status

HasFrame(log, status) == \E j \in 1..Len(log) : IsFrame(log[j], status)

StoresOf(log) == {j \in 1..Len(log) : log[j].op = "store"}

\* the run returned 200 after its backend ran
Successful(r) == r.pc = "done" /\ r.statusCode = 200

\* C2: a STREAMING_END frame is sent only after store_conversation has
\* returned in the same run; a run that returns 200 has called
\* store_conversation exactly once, and the store holds its conversation.
C2_StoreBeforeEnd ==
    \A k \in 1..Len(runs) :
        LET r == runs[k] IN
        /\ \A j \in 1..Len(r.log) :
              IsFrame(r.log[j], "STREAMING_END") =>
                  \E i \in 1..(j - 1) : r.log[i].op = "store" /\ r.log[i].ok
        /\ Successful(r) =>
              /\ Cardinality(StoresOf(r.log)) = 1
              /\ \A j \in StoresOf(r.log) : r.log[j].ok
              /\ HasFrame(r.log, "STREAMING_END")
              /\ store[r.user_id[1]] = r.conversation[1]

\* a run returned 200 and its terminal frame was sent
C2_Witness ==
    \E k \in 1..Len(runs) :
        /\ Successful(runs[k])
        /\ HasFrame(runs[k].log, "STREAMING_END")
        /\ Cardinality(StoresOf(runs[k].log)) = 1

\* the frame status of a generation event
StatusOf(event) ==
    CASE event = "token" -> "STREAMING"
      [] event = "agent-thinking" -> "AGENT_THINKING"
      [] event = "agent-tool-result" -> "AGENT_TOOL_RESULT"
      [] event \in {"stop", "agent-stop"} -> "STREAMING_END"

MapStatus(events) == [j \in 1..Len(events) |-> StatusOf(events[j])]

\* the statuses of the frames the callbacks of a run sent, in order
EventFrames(log) ==
    LET sends == SelectSeq(log, LAMBDA e :
                     e.op = "send" /\
                     e.status \notin {"FETCHING_KNOWLEDGE", "ERROR"})
    IN [j \in 1..Len(sends) |-> sends[j].status]

\* the STREAMING frames carry the tokens in the order of their emission
TokensInOrder(log) ==
    LET toks == SelectSeq(log, LAMBDA e : IsFrame(e, "STREAMING"))
    IN \A j \in 1..Len(toks) : toks[j].n = j

\* a run that returned 200 sent one STREAMING_END frame, as its last frame
EndsWithTerminal(r) ==
    Successful(r) =>
        /\ Len(r.log) >= 1
        /\ IsFrame(r.log[Len(r.log)], "STREAMING_END")
        /\ Cardinality({j \in 1..Len(r.log) :
                           IsFrame(r.log[j], "STREAMING_END")}) = 1
        /\ \A j \in 1..Len(r.log) : r.log[j].ok

\* C7 as stated: the frames of a run are the image of the backend's events,
\* one frame per event, in order; a run that completes sends exactly one
\* STREAMING_END frame, as its last frame.
C7_Original ==
    \A k \in 1..Len(runs) :
        /\ EventFrames(runs[k].log) = MapStatus(runs[k].events)
        /\ TokensInOrder(runs[k].log)
        /\ EndsWithTerminal(runs[k])

\* C7, amended: the same, except that a terminal event whose
\* store_conversation call raises gets no frame.
C7_FramesFollowEvents ==
    \A k \in 1..Len(runs) :
        LET r == runs[k]
            failedStore == \E j \in StoresOf(r.log) : ~r.log[j].ok
        IN
        /\ EventFrames(r.log) =
              MapStatus(IF failedStore
                        THEN SubSeq(r.events, 1, Len(r.events) - 1)
                        ELSE r.events)
        /\ TokensInOrder(r.log)
        /\ EndsWithTerminal(r)

\* a plain run with a knowledge lookup and two tokens returned 200
C7_Witness ==
    \E k \in 1..Len(runs) :
        /\ Successful(runs[k])
        /\ runs[k].events = <<"token", "token", "stop">>
        /\ HasFrame(runs[k].log, "FETCHING_KNOWLEDGE")
        /\ EventFrames(runs[k].log) =
              <<"STREAMING", "STREAMING", "STREAMING_END">>

\* C8: a failed send of a STREAMING, AGENT_THINKING or AGENT_TOOL_RESULT
\* frame does not abort the run: the run still reaches its terminal event
\* and stores the conversation.
C8_SendFailureNotFatal ==
    \A k \in 1..Len(runs) :
        LET r == runs[k] IN
        (r.pc = "done" /\ \E j \in 1..Len(r.log) :
              /\ r.log[j].op = "send"
              /\ ~r.log[j].ok
              /\ r.log[j].status \in
                    {"STREAMING", "AGENT_THINKING", "AGENT_TOOL_RESULT"}) =>
            /\ \E j \in 1..Len(r.events) :
                  r.events[j] \in {"stop", "agent-stop"}
            /\ \E j \in StoresOf(r.log) : r.log[j].ok

\* every send of the invocation was delivered: its connection is live
Live(log) == \A j \in 1..Len(log) : log[j].op = "send" => log[j].ok

\* C9: on a live connection, no invocation returns 403, 404 or 500 without
\* having sent an ERROR frame to its connection.
C9_ErrorFrameOnFailure ==
    /\ (last.statusCode \in {403, 404, 500} /\ Live(last.log)) =>
          HasFrame(last.log, "ERROR")
    /\ \A k \in 1..Len(runs) :
          (/\ runs[k].pc = "done"
           /\ runs[k].statusCode \in {403, 404, 500}
           /\ Live(runs[k].log)) => HasFrame(runs[k].log, "ERROR")

\* C10: when the backend raises before its terminal event, the run returns
\* 500, store_conversation is not called and no STREAMING_END is sent.
C10_BackendFailure ==
    \A k \in 1..Len(runs) :
        runs[k].error = "BackendError" =>
            /\ runs[k].statusCode = 500
            /\ ~runs[k].escaped
            /\ StoresOf(runs[k].log) = {}
            /\ ~HasFrame(runs[k].log, "STREAMING_END")

\* C3: every exception raised in an invocation is caught: the handler
\* sends an ERROR frame, returns a failure response, and no exception
\* leaves it.
C3_Caught(inv) ==
    /\ ~inv.escaped
    /\ inv.error # "" =>
          /\ HasFrame(inv.log, "ERROR")
          /\ inv.statusCode >= 400

C3_AllCaught ==
    /\ C3_Caught(last)
    /\ \A k \in 1..Len(runs) : C3_Caught(runs[k])

\* conversation preparation reported RecordNotFound in the invocation
NotFound(r) ==
    r.pc = "done" /\ r.chat_input # Absent /\ r.conversation = Absent

\* C11: when preparation reports RecordNotFound for a request that names a
\* bot id, exactly one frame is sent, ERROR with reason bot_not_found, the
\* response is 404, no backend is invoked and nothing is stored; for a
\* request that names no bot the response is 400 and no frame is sent.
C11_UnknownBot ==
    \A k \in 1..Len(runs) :
        LET r == runs[k] IN
        NotFound(r) =>
            /\ r.events = <<>>
            /\ StoresOf(r.log) = {}
            /\ IF r.chat_input[1].bot_id # Absent
               THEN /\ Len(r.log) = 1
                    /\ IsFrame(r.log[1], "ERROR")
                    /\ r.log[1].reason = "bot_not_found"
                    /\ r.statusCode = 404
               ELSE /\ r.log = <<>>
                    /\ r.statusCode = 400

\* the plain backend's stop event was handled in the invocation
Stopped(r) ==
    r.pc = "done" /\ r.events # <<>> /\ r.events[Len(r.events)] = "stop"

IsChild(map, parent, id) ==
    \E j \in 1..Len(map[parent].children) : map[parent].children[j] = id

AgentFrames == {"AGENT_THINKING", "AGENT_TOOL_RESULT"}

\* C13: a run whose bot declares agent tools takes the agent flow, also
\* when the bot has a knowledge base: no FETCHING_KNOWLEDGE frame, no
\* knowledge pre-fetch, no event or frame of the plain backend, and the
\* knowledge base is one more tool; no run has frames of both flows.
C13_FlowSelection ==
    \A k \in 1..Len(runs) :
        LET r == runs[k] IN
        /\ (r.conversation # Absent /\ r.bot # Absent /\ r.bot[1].agent) =>
              /\ ~HasFrame(r.log, "FETCHING_KNOWLEDGE")
              /\ ~HasFrame(r.log, "STREAMING")
              /\ r.search_results = 0
              /\ \A j \in 1..Len(r.events) :
                    r.events[j] \notin {"token", "stop"}
              /\ r.tools = IF r.bot[1].knowledge
                           THEN <<"declared", "knowledge">>
                           ELSE <<"declared">>
        /\ ~(/\ HasFrame(r.log, "STREAMING")
             /\ \E s \in AgentFrames : HasFrame(r.log, s))
        /\ ~(\E i, j \in 1..Len(r.events) :
                /\ r.events[i] \in {"token", "stop"}
                /\ r.events[j] \notin {"token", "stop"})

\* a bot with agent tools and a knowledge base answered through the agent
C13_Witness ==
    \E k \in 1..Len(runs) :
        LET r == runs[k] IN
        /\ Successful(r)
        /\ r.bot # Absent
        /\ r.bot[1].agent
        /\ r.bot[1].knowledge
        /\ r.tools = <<"declared", "knowledge">>
        /\ HasFrame(r.log, "AGENT_THINKING")
        /\ r.events[Len(r.events)] = "agent-stop"

C15_EndStep ==
    ended' = ended + 1 =>
        LET r == runs'[Len(runs')]
            live == {it \in query_parts(table, r.conn) : ~Expired(it)}
        IN /\ (\A it \in query_owner(table, r.conn) : Expired(it)) =>
                 /\ r.user_id = Absent
                 /\ r.pc = "done"
           /\ r.full_message # Absent =>
                 \E o \in Orders(live) :
                    r.full_message[1] = join_parts(sort_parts(o))

\* C15: every END treats expired owner records and parts as absent
C15_LogicalExpiry == [][C15_EndStep]_vars

\* C16: no two runs hold and store one conversation at overlapping times:
\* the assistant message a run stored with its 200 response is in the
\* stored conversation from then on.
C16_NoLostMessage ==
    \A k \in 1..Len(runs) :
        LET r == runs[k] IN
        (Successful(r) /\ ~r.chat_input[1].continue_generate) =>
            r.conversation[1].last_message_id \in
                DOMAIN store[r.user_id[1]].message_map

\* C17: an END that finds part sequence numbers other than 1..n fails with
\* a malformed-payload error and dispatches no request.
C17_EndStep ==
    ended' = ended + 1 =>
        LET r == runs'[Len(runs')]
            seqs == {it.MessagePartId : it \in query_parts(table, r.conn)}
        IN seqs # 1..Cardinality(seqs) =>
              /\ r.pc = "done"
              /\ r.error # ""
              /\ r.chat_input = Absent
              /\ r.conversation = Absent

\* C17: every END fails on a gap in the part sequence numbers
C17_GapDetected == [][C17_EndStep]_vars

\* C18: an END on a connection without owner record invokes no backend and
\* stores nothing, sends an ERROR frame and returns 500; a run that starts
\* has the user identity of the connection's last successful START.
C18_EndRequiresOwner ==
    \A k \in 1..Len(runs) :
        LET r == runs[k] IN
        /\ r.error = "IndexError" =>
              /\ r.user_id = Absent
              /\ r.conversation = Absent
              /\ r.events = <<>>
              /\ StoresOf(r.log) = {}
              /\ HasFrame(r.log, "ERROR")
              /\ r.statusCode = 500
        /\ r.conversation # Absent =>
              /\ r.user_id # Absent
              /\ r.user_id = r.g_user

\* C19: sequence number 0 holds the owner record and only START writes it:
\* an item with sequence number 0 has a UserId and no fragment, and every
\* stored fragment has a sequence number >= 1.
C19_OwnerReserved ==
    \A it \in table :
        /\ it.MessagePartId = 0 =>
              it.UserId # Absent /\ it.MessagePart = Absent
        /\ it.MessagePart # Absent => it.MessagePartId >= 1

\* C20: the payload the END of a second session reassembles is the
\* concatenation of the fragments sent after that session's START only.
C20_EndStep ==
    ended' = ended + 1 =>
        LET r == runs'[Len(runs')]
            fresh == {it \in query_parts(table, r.conn) : Fresh(it)}
        IN r.full_message # Absent =>
              \E o \in Orders(fresh) :
                 r.full_message[1] = join_parts(sort_parts(o))

\* C20: every END of a second session reassembles that session's fragments only
C20_NoLeak == [][C20_EndStep]_vars

====
